---------------------------- MODULE Spec2Model ----------------------------
(***************************************************************************)
(* A model of clison's JSONProcessor (src/lib/json-processor.js) and of    *)
(* the lodash / node:vm operations it calls.                               *)
(*                                                                         *)
(* JavaScript strings are sequences of one-character strings, so that      *)
(* path formatting (`${path}.${key}`), path parsing (lodash stringToPath), *)
(* JSON.parse and toLowerCase/includes are computed, not assumed.          *)
(* JavaScript objects and arrays live in a heap of nodes addressed by      *)
(* reference, so that aliasing between the processor's document and the    *)
(* values an operation returns is visible.                                 *)
(***************************************************************************)
EXTENDS Integers, Sequences, FiniteSets, TLC

(***************************************************************************)
(* Bounds of the model.                                                    *)
(***************************************************************************)
\* evaluate() calls explored on one processor
MaxEvals == 2

(***************************************************************************)
(* JavaScript values.  A "ref" is an object or array in the heap; a "host" *)
(* value is an object of the host realm that is not JSON data (a           *)
(* constructor function, the lodash namespace, the process object).        *)
(***************************************************************************)
Undef == [t |-> "undefined"]
Null == [t |-> "null"]
Num(n) == [t |-> "number", n |-> n]
Str(s) == [t |-> "string", s |-> s]
Bool(b) == [t |-> "boolean", b |-> b]
Ref(id) == [t |-> "ref", id |-> id]

(***************************************************************************)
(* Strings.                                                                *)
(***************************************************************************)
UpperChars == <<"A","B","C","D","E","F","G","H","I","J","K","L","M",
                "N","O","P","Q","R","S","T","U","V","W","X","Y","Z">>
LowerChars == <<"a","b","c","d","e","f","g","h","i","j","k","l","m",
                "n","o","p","q","r","s","t","u","v","w","x","y","z">>
DigitChars == <<"0","1","2","3","4","5","6","7","8","9">>

IndexIn(c, chars) ==
  IF \E i \in 1..Len(chars) : chars[i] = c
    THEN CHOOSE i \in 1..Len(chars) : chars[i] = c
    ELSE 0

\* String.prototype.toLowerCase
LowerChar(c) == IF IndexIn(c, UpperChars) > 0 THEN LowerChars[IndexIn(c, UpperChars)] ELSE c
toLowerCase(s) == [i \in 1..Len(s) |-> LowerChar(s[i])]

\* String.prototype.includes
includes(s, q) ==
  \E i \in 1..(Len(s) - Len(q) + 1) : SubSeq(s, i, i + Len(q) - 1) = q

IsDigit(c) == IndexIn(c, DigitChars) > 0
DigitVal(c) == IndexIn(c, DigitChars) - 1

RECURSIVE DigitsToNum(_)
DigitsToNum(s) ==
  IF s = <<>> THEN 0
  ELSE 10 * DigitsToNum(SubSeq(s, 1, Len(s) - 1)) + DigitVal(s[Len(s)])

\* String(n) for a non-negative integer
RECURSIVE NumToDigits(_)
NumToDigits(n) ==
  IF n < 10 THEN <<DigitChars[n + 1]>>
  ELSE NumToDigits(n \div 10) \o <<DigitChars[(n % 10) + 1]>>

\* /^(?:0|[1-9]\d*)$/ : the canonical text of an array index
IsUintText(s) ==
  /\ Len(s) > 0
  /\ \A i \in 1..Len(s) : IsDigit(s[i])
  /\ (Len(s) = 1 \/ s[1] # "0")

Max(a, b) == IF a > b THEN a ELSE b

(***************************************************************************)
(* The heap.  A node is a JavaScript object or array: `ents` are its own   *)
(* enumerable properties in JavaScript's own-property order (integer keys  *)
(* ascending, then the other keys in insertion order), `len` is an array's *)
(* length.  Property keys are strings.                                     *)
(***************************************************************************)
EmptyHeap == [i \in {} |-> 0]
EmptyObject == [kind |-> "object", ents |-> <<>>, len |-> 0]
EmptyArray == [kind |-> "array", ents |-> <<>>, len |-> 0]

\* the smallest unused address
Fresh(h) == CHOOSE id \in 1..(Cardinality(DOMAIN h) + 1) : id \notin DOMAIN h

Alloc(h, node) == [h |-> h @@ (Fresh(h) :> node), v |-> Ref(Fresh(h))]

EntIndex(node, k) ==
  IF \E i \in 1..Len(node.ents) : node.ents[i].k = k
    THEN CHOOSE i \in 1..Len(node.ents) : node.ents[i].k = k
    ELSE 0

\* Object.prototype.hasOwnProperty
HasOwn(node, k) == EntIndex(node, k) > 0

GetOwn(node, k) == IF HasOwn(node, k) THEN node.ents[EntIndex(node, k)].v ELSE Undef

\* where a new own property goes in the own-property order
InsertPos(node, k) ==
  IF IsUintText(k)
    THEN 1 + Cardinality({i \in 1..Len(node.ents) :
                 /\ IsUintText(node.ents[i].k)
                 /\ DigitsToNum(node.ents[i].k) < DigitsToNum(k)})
    ELSE Len(node.ents) + 1

\* object[k] = v on a node
PutOwn(node, k, v) ==
  LET ents == node.ents
      newEnts ==
        IF HasOwn(node, k)
          THEN [ents EXCEPT ![EntIndex(node, k)].v = v]
          ELSE LET p == InsertPos(node, k)
               IN SubSeq(ents, 1, p - 1) \o <<[k |-> k, v |-> v]>> \o SubSeq(ents, p, Len(ents))
      newLen ==
        IF node.kind = "array" /\ IsUintText(k)
          THEN Max(node.len, DigitsToNum(k) + 1)
          ELSE node.len
  IN [node EXCEPT !.ents = newEnts, !.len = newLen]

\* the nodes reachable from a value
RECURSIVE Reach(_, _)
Reach(h, v) ==
  IF v.t # "ref" THEN {}
  ELSE {v.id} \cup UNION {Reach(h, h[v.id].ents[i].v) : i \in 1..Len(h[v.id].ents)}

Restrict(h, ids) == [id \in (DOMAIN h) \cap ids |-> h[id]]

(***************************************************************************)
(* JSON documents as written in a file, and JSON.parse of a document.      *)
(***************************************************************************)
JObj(ents) == [t |-> "object", ents |-> ents]
JArr(items) == [t |-> "array", items |-> items, extra |-> <<>>]
KV(k, v) == [k |-> k, v |-> v]

RECURSIVE Load(_, _)
RECURSIVE LoadEnts(_, _, _, _)
RECURSIVE LoadItems(_, _, _, _)
\* JSON.parse of a document: the heap after, and the value
Load(h, d) ==
  IF d.t = "object"
    THEN LET r == LoadEnts(h, d.ents, 1, EmptyObject) IN Alloc(r.h, r.node)
  ELSE IF d.t = "array"
    THEN LET r == LoadItems(h, d.items, 1, EmptyArray) IN Alloc(r.h, r.node)
  ELSE [h |-> h, v |-> d]
LoadEnts(h, ents, i, node) ==
  IF i > Len(ents) THEN [h |-> h, node |-> node]
  ELSE LET c == Load(h, ents[i].v)
       IN LoadEnts(c.h, ents, i + 1, PutOwn(node, ents[i].k, c.v))
LoadItems(h, items, i, node) ==
  IF i > Len(items) THEN [h |-> h, node |-> node]
  ELSE LET c == Load(h, items[i])
       IN LoadItems(c.h, items, i + 1, PutOwn(node, NumToDigits(i - 1), c.v))

\* the own properties of a node that are not array elements
NamedEnts(node) == SelectSeq(node.ents, LAMBDA e : ~IsUintText(e.k))

\* the document a value stands for (deep structural content)
RECURSIVE Mat(_, _)
Mat(h, v) ==
  IF v.t # "ref" THEN v
  ELSE LET node == h[v.id] IN
    IF node.kind = "array"
      THEN [t |-> "array",
            items |-> [i \in 1..node.len |-> Mat(h, GetOwn(node, NumToDigits(i - 1)))],
            extra |-> [i \in 1..Len(NamedEnts(node)) |->
                         KV(NamedEnts(node)[i].k, Mat(h, NamedEnts(node)[i].v))]]
      ELSE [t |-> "object",
            ents |-> [i \in 1..Len(node.ents) |-> KV(node.ents[i].k, Mat(h, node.ents[i].v))]]

(***************************************************************************)
(* lodash predicates and iteration.                                        *)
(***************************************************************************)
isObject(v) == v.t = "ref"
isString(v) == v.t = "string"
isArray(h, v) == v.t = "ref" /\ h[v.id].kind = "array"

\* value.length as lodash's isArrayLike reads it
LengthOf(h, v) ==
  IF v.t = "string" THEN Num(Len(v.s))
  ELSE IF v.t # "ref" THEN Undef
  ELSE IF h[v.id].kind = "array" THEN Num(h[v.id].len)
  ELSE GetOwn(h[v.id], <<"l","e","n","g","t","h">>)

\* isArrayLike: value != null && isLength(value.length) && !isFunction(value)
isArrayLike(h, v) ==
  /\ v.t \in {"ref", "string"}
  /\ LengthOf(h, v).t = "number"
  /\ LengthOf(h, v).n >= 0

\* The (value, key) pairs _.forEach(collection, iteratee) hands to the iteratee,
\* in order: an array-like collection is walked by index 0..length-1, any
\* other object by its own keys.
ForEachPairs(h, v) ==
  LET node == h[v.id] IN
  IF isArrayLike(h, v)
    THEN [i \in 1..LengthOf(h, v).n |->
            [key |-> Num(i - 1), value |-> GetOwn(node, NumToDigits(i - 1))]]
    ELSE [i \in 1..Len(node.ents) |->
            [key |-> Str(node.ents[i].k), value |-> node.ents[i].v]]

\* _.size(collection) of an object or array
size(h, v) ==
  IF isArrayLike(h, v) THEN LengthOf(h, v).n ELSE Len(h[v.id].ents)

(***************************************************************************)
(* lodash paths: isKey, stringToPath, castPath.  Path texts of the model   *)
(* are over letters, digits, '.', '[' and ']' (no quoted bracket groups),  *)
(* and name no property inherited from Object.prototype.                   *)
(***************************************************************************)
IsWordChar(c) ==
  IndexIn(c, UpperChars) > 0 \/ IndexIn(c, LowerChars) > 0 \/ IsDigit(c) \/ c = "_"

\* reIsPlainProp = /^\w*$/
IsPlainProp(s) == \A i \in 1..Len(s) : IsWordChar(s[i])

\* reIsDeepProp = /\.|\[(?:[^[\]]*|...)\]/ : a '.', or a bracket group
IsDeepProp(s) ==
  \/ \E i \in 1..Len(s) : s[i] = "."
  \/ \E i \in 1..Len(s) : \E j \in (i + 1)..Len(s) :
        /\ s[i] = "["
        /\ s[j] = "]"
        /\ \A m \in (i + 1)..(j - 1) : s[m] \notin {"[", "]"}

\* key in Object(object)
In(h, object, k) ==
  IF object.t = "ref" THEN HasOwn(h[object.id], k)
  ELSE IF object.t = "string" THEN IsUintText(k) /\ DigitsToNum(k) < Len(object.s)
  ELSE FALSE

\* isKey(value, object) for a string value
isKey(h, s, object) ==
  \/ IsPlainProp(s)
  \/ ~IsDeepProp(s)
  \/ (object.t \notin {"null", "undefined"} /\ In(h, object, s))

\* -?\d+(?:\.\d+)? : the text rePropName accepts between brackets
IsAllDigits(s) == Len(s) > 0 /\ \A i \in 1..Len(s) : IsDigit(s[i])
IsNumberText(s) ==
  LET u == IF Len(s) > 0 /\ s[1] = "-" THEN Tail(s) ELSE s IN
  \/ IsAllDigits(u)
  \/ \E d \in 1..Len(u) :
       /\ u[d] = "."
       /\ IsAllDigits(SubSeq(u, 1, d - 1))
       /\ IsAllDigits(SubSeq(u, d + 1, Len(u)))

StartsAt(s, i, w) == i + Len(w) - 1 <= Len(s) /\ SubSeq(s, i, i + Len(w) - 1) = w

\* (?=(?:\.|\[\])(?:\.|\[\]|$)) at position i
EmptySegmentAt(s, i) ==
  \/ /\ StartsAt(s, i, <<".">>)
     /\ (i + 1 > Len(s) \/ StartsAt(s, i + 1, <<".">>) \/ StartsAt(s, i + 1, <<"[", "]">>))
  \/ /\ StartsAt(s, i, <<"[", "]">>)
     /\ (i + 2 > Len(s) \/ StartsAt(s, i + 2, <<".">>) \/ StartsAt(s, i + 2, <<"[", "]">>))

\* the end of the run of characters other than . [ ] that starts at i
RECURSIVE RunEnd(_, _)
RunEnd(s, i) ==
  IF i + 1 <= Len(s) /\ s[i + 1] \notin {".", "[", "]"} THEN RunEnd(s, i + 1) ELSE i

\* the position of the first ']' after i, or 0
CloseAfter(s, i) ==
  IF \E j \in (i + 1)..Len(s) : s[j] = "]"
    THEN CHOOSE j \in (i + 1)..Len(s) : s[j] = "]" /\ \A m \in (i + 1)..(j - 1) : s[m] # "]"
    ELSE 0

\* string.replace(rePropName, ...) scanning from position i
RECURSIVE ScanPath(_, _, _)
ScanPath(s, i, acc) ==
  IF i > Len(s) THEN acc
  ELSE IF s[i] \notin {".", "[", "]"}
    THEN ScanPath(s, RunEnd(s, i) + 1, Append(acc, SubSeq(s, i, RunEnd(s, i))))
  ELSE IF s[i] = "[" /\ CloseAfter(s, i) > 0
            /\ IsNumberText(SubSeq(s, i + 1, CloseAfter(s, i) - 1))
    THEN ScanPath(s, CloseAfter(s, i) + 1, Append(acc, SubSeq(s, i + 1, CloseAfter(s, i) - 1)))
  ELSE IF EmptySegmentAt(s, i)
    THEN ScanPath(s, i + 1, Append(acc, <<>>))
  ELSE ScanPath(s, i + 1, acc)

\* stringToPath: a leading '.' gives a leading empty key
stringToPath(s) ==
  ScanPath(s, 1, IF Len(s) > 0 /\ s[1] = "." THEN << <<>> >> ELSE <<>>)

\* toKey(castPath(path, object)): the property keys a path names
castPath(h, path, object) ==
  IF path.t = "number" THEN <<NumToDigits(path.n)>>
  ELSE IF isKey(h, path.s, object) THEN <<path.s>>
  ELSE stringToPath(path.s)

\* isIndex(value) for a key string: reIsUint
isIndex(k) == IsUintText(k)

(***************************************************************************)
(* _.get, _.set, _.cloneDeep                                               *)
(***************************************************************************)
\* object[key] of a value that is neither null nor undefined
PropRead(h, object, k) ==
  IF object.t = "ref" THEN
    IF h[object.id].kind = "array" /\ k = <<"l","e","n","g","t","h">>
      THEN Num(h[object.id].len)
      ELSE GetOwn(h[object.id], k)
  ELSE IF object.t = "string" THEN
    IF IsUintText(k) /\ DigitsToNum(k) < Len(object.s)
      THEN Str(<<object.s[DigitsToNum(k) + 1]>>)
    ELSE IF k = <<"l","e","n","g","t","h">> THEN Num(Len(object.s))
    ELSE Undef
  ELSE Undef

IsNullish(v) == v.t \in {"null", "undefined"}

\* baseGet's loop: while (object != null && index < length) object = object[key]
RECURSIVE GetWalk(_, _, _, _)
GetWalk(h, object, keys, i) ==
  IF i > Len(keys) THEN object
  ELSE IF IsNullish(object) THEN Undef
  ELSE GetWalk(h, PropRead(h, object, keys[i]), keys, i + 1)

\* _.get(object, path)
get(h, object, path) ==
  IF IsNullish(object) THEN Undef
  ELSE LET keys == castPath(h, path, object)
       IN IF Len(keys) = 0 THEN Undef ELSE GetWalk(h, object, keys, 1)

\* baseSet's loop from key i on the object `nested`: the heap after
RECURSIVE SetWalk(_, _, _, _, _)
SetWalk(h, nested, keys, i, value) ==
  IF i > Len(keys) THEN h
  ELSE IF i = Len(keys)
    THEN [h EXCEPT ![nested.id] = PutOwn(h[nested.id], keys[i], value)]
  ELSE LET objValue == PropRead(h, nested, keys[i]) IN
    IF isObject(objValue)
      THEN SetWalk(h, objValue, keys, i + 1, value)
      ELSE LET a == Alloc(h, IF isIndex(keys[i + 1]) THEN EmptyArray ELSE EmptyObject)
               h2 == [a.h EXCEPT ![nested.id] = PutOwn(a.h[nested.id], keys[i], a.v)]
           IN SetWalk(h2, a.v, keys, i + 1, value)

\* _.set(object, path, value): mutates object in place; a value that is not
\* an object is left as it is
set(h, object, path, value) ==
  IF ~isObject(object) THEN h
  ELSE SetWalk(h, object, castPath(h, path, object), 1, value)

RECURSIVE cloneDeepRec(_, _)
RECURSIVE CloneEnts(_, _, _, _)
RECURSIVE CloneItems(_, _, _, _)
\* baseClone, deep: the heap after and the copy
cloneDeepRec(h, v) ==
  IF v.t # "ref" THEN [h |-> h, v |-> v]
  ELSE IF h[v.id].kind = "array"
    THEN LET r == CloneItems(h, h[v.id], 0, EmptyArray) IN Alloc(r.h, r.node)
    ELSE LET r == CloneEnts(h, h[v.id].ents, 1, EmptyObject) IN Alloc(r.h, r.node)
CloneEnts(h, ents, i, node) ==
  IF i > Len(ents) THEN [h |-> h, node |-> node]
  ELSE LET c == cloneDeepRec(h, ents[i].v)
       IN CloneEnts(c.h, ents, i + 1, PutOwn(node, ents[i].k, c.v))
CloneItems(h, src, i, node) ==
  IF i >= src.len THEN [h |-> h, node |-> node]
  ELSE LET c == cloneDeepRec(h, GetOwn(src, NumToDigits(i)))
       IN CloneItems(c.h, src, i + 1, PutOwn(node, NumToDigits(i), c.v))

\* a replace that forgets the copy: the same objects, not new ones
cloneDeepAlias(h, v) == [h |-> h, v |-> v]

\* _.cloneDeep(value)
cloneDeep(h, v) == cloneDeepRec(h, v)

(***************************************************************************)
(* JSON.parse of a text.  Texts of the model are over letters, digits and  *)
(* " [ ] { } : , (no white space, sign, fraction, exponent or escape).     *)
(***************************************************************************)
ParseFail == [ok |-> FALSE, v |-> Undef, next |-> 0]
ParseOk(v, next) == [ok |-> TRUE, v |-> v, next |-> next]

\* the end of the run of digits that starts at i
RECURSIVE DigitsEnd(_, _)
DigitsEnd(s, i) ==
  IF i + 1 <= Len(s) /\ IsDigit(s[i + 1]) THEN DigitsEnd(s, i + 1) ELSE i

\* the position of the first '"' after i, or 0
QuoteAfter(s, i) ==
  IF \E j \in (i + 1)..Len(s) : s[j] = "\""
    THEN CHOOSE j \in (i + 1)..Len(s) : s[j] = "\"" /\ \A m \in (i + 1)..(j - 1) : s[m] # "\""
    ELSE 0

RECURSIVE ParseValue(_, _)
RECURSIVE ParseItems(_, _, _)
RECURSIVE ParseMembers(_, _, _)
ParseValue(s, i) ==
  IF i > Len(s) THEN ParseFail
  ELSE IF StartsAt(s, i, <<"t","r","u","e">>) THEN ParseOk(Bool(TRUE), i + 4)
  ELSE IF StartsAt(s, i, <<"f","a","l","s","e">>) THEN ParseOk(Bool(FALSE), i + 5)
  ELSE IF StartsAt(s, i, <<"n","u","l","l">>) THEN ParseOk(Null, i + 4)
  ELSE IF IsDigit(s[i]) THEN
    LET e == DigitsEnd(s, i) IN
    IF s[i] = "0" /\ e > i THEN ParseFail
    ELSE ParseOk(Num(DigitsToNum(SubSeq(s, i, e))), e + 1)
  ELSE IF s[i] = "\"" THEN
    IF QuoteAfter(s, i) = 0 THEN ParseFail
    ELSE ParseOk(Str(SubSeq(s, i + 1, QuoteAfter(s, i) - 1)), QuoteAfter(s, i) + 1)
  ELSE IF s[i] = "[" THEN
    IF StartsAt(s, i + 1, <<"]">>) THEN ParseOk(JArr(<<>>), i + 2)
    ELSE ParseItems(s, i + 1, <<>>)
  ELSE IF s[i] = "{" THEN
    IF StartsAt(s, i + 1, <<"}">>) THEN ParseOk(JObj(<<>>), i + 2)
    ELSE ParseMembers(s, i + 1, <<>>)
  ELSE ParseFail
\* the elements of an array from position i, after '[' or ','
ParseItems(s, i, acc) ==
  LET r == ParseValue(s, i) IN
  IF ~r.ok THEN ParseFail
  ELSE IF StartsAt(s, r.next, <<"]">>) THEN ParseOk(JArr(Append(acc, r.v)), r.next + 1)
  ELSE IF StartsAt(s, r.next, <<",">>) THEN ParseItems(s, r.next + 1, Append(acc, r.v))
  ELSE ParseFail
\* the members of an object from position i, after '{' or ','
ParseMembers(s, i, acc) ==
  IF ~(i <= Len(s) /\ s[i] = "\"" /\ QuoteAfter(s, i) > 0) THEN ParseFail
  ELSE LET q == QuoteAfter(s, i)
           k == SubSeq(s, i + 1, q - 1)
       IN IF ~StartsAt(s, q + 1, <<":">>) THEN ParseFail
          ELSE LET r == ParseValue(s, q + 2) IN
            IF ~r.ok THEN ParseFail
            ELSE IF StartsAt(s, r.next, <<"}">>)
              THEN ParseOk(JObj(Append(acc, KV(k, r.v))), r.next + 1)
            ELSE IF StartsAt(s, r.next, <<",">>)
              THEN ParseMembers(s, r.next + 1, Append(acc, KV(k, r.v)))
            ELSE ParseFail

\* JSON.parse(text): ok with the document, or not ok (a SyntaxError)
JSONParse(s) ==
  LET r == ParseValue(s, 1) IN
  IF r.ok /\ r.next = Len(s) + 1 THEN r ELSE ParseFail

(***************************************************************************)
(* JSONProcessor.search and JSONProcessor.listAllNodes                     *)
(***************************************************************************)
\* String(v) of a string or a number, as a template literal renders it
ToText(v) == IF v.t = "number" THEN NumToDigits(v.n) ELSE v.s

\* JavaScript truthiness of a string or a number
Truthy(v) == IF v.t = "number" THEN v.n # 0 ELSE Len(v.s) > 0

\* const currentPath = path ? `${path}.${key}` : key;
currentPath(path, key) ==
  IF Truthy(path) THEN Str(ToText(path) \o <<".">> \o ToText(key)) ELSE key

\* the records search's iteratee pushes for one (value, key)
SearchRecords(path, key, value, lowerQuery) ==
  (IF includes(toLowerCase(ToText(key)), lowerQuery)
     THEN <<[path |-> currentPath(path, key), key |-> key, value |-> value, matchType |-> "key"]>>
     ELSE <<>>)
  \o
  (IF isString(value) /\ includes(toLowerCase(value.s), lowerQuery)
     THEN <<[path |-> currentPath(path, key), key |-> key, value |-> value, matchType |-> "value"]>>
     ELSE <<>>)

RECURSIVE SearchTraverse(_, _, _, _)
RECURSIVE SearchEach(_, _, _, _, _)
\* search's traverse(obj, path)
SearchTraverse(h, obj, path, lowerQuery) ==
  IF isObject(obj) THEN SearchEach(h, ForEachPairs(h, obj), 1, path, lowerQuery) ELSE <<>>
SearchEach(h, pairs, i, path, lowerQuery) ==
  IF i > Len(pairs) THEN <<>>
  ELSE SearchRecords(path, pairs[i].key, pairs[i].value, lowerQuery)
       \o SearchTraverse(h, pairs[i].value, currentPath(path, pairs[i].key), lowerQuery)
       \o SearchEach(h, pairs, i + 1, path, lowerQuery)

\* JSONProcessor.search(query)
search(h, data, query) == SearchTraverse(h, data, Str(<<>>), toLowerCase(query))

\* typeof value for a value that is not an object or array
typeof(v) == IF v.t = "null" THEN "object" ELSE v.t

\* the type tag listAllNodes gives a value
NodeType(h, value) ==
  IF isArray(h, value) THEN "array"
  ELSE IF isObject(value) THEN "object"
  ELSE typeof(value)

\* the value listAllNodes gives a node: `${kind}[${_.size(value)}]` or the value
NodeValue(h, value) ==
  IF isObject(value)
    THEN Str((IF isArray(h, value) THEN <<"A","r","r","a","y">> ELSE <<"O","b","j","e","c","t">>)
             \o <<"[">> \o NumToDigits(size(h, value)) \o <<"]">>)
    ELSE value

RECURSIVE ListTraverse(_, _, _)
RECURSIVE ListEach(_, _, _, _)
\* listAllNodes' traverse(obj, path)
ListTraverse(h, obj, path) ==
  IF isObject(obj) THEN ListEach(h, ForEachPairs(h, obj), 1, path) ELSE <<>>
ListEach(h, pairs, i, path) ==
  IF i > Len(pairs) THEN <<>>
  ELSE <<[path |-> currentPath(path, pairs[i].key),
          type |-> NodeType(h, pairs[i].value),
          value |-> NodeValue(h, pairs[i].value)]>>
       \o (IF isObject(pairs[i].value)
             THEN ListTraverse(h, pairs[i].value, currentPath(path, pairs[i].key))
             ELSE <<>>)
       \o ListEach(h, pairs, i + 1, path)

\* JSONProcessor.listAllNodes()
listAllNodes(h, data) == ListTraverse(h, data, Str(<<>>))

(***************************************************************************)
(* JSONProcessor.replace                                                   *)
(***************************************************************************)
\* a catch block that leaves parsedValue unset
parseNewValueNoFallback(h, newValue) ==
  IF JSONParse(newValue).ok THEN Load(h, JSONParse(newValue).v)
  ELSE [h |-> h, v |-> Undef]

\* parsedValue: JSON.parse(newValue), or newValue itself when that throws
parseNewValue(h, newValue) ==
  IF JSONParse(newValue).ok THEN Load(h, JSONParse(newValue).v)
  ELSE [h |-> h, v |-> Str(newValue)]

\* JSONProcessor.replace(path, newValue): the heap after and the record returned
replace(h, data, path, newValue) ==
  LET parsed == parseNewValue(h, newValue)
      copy == cloneDeep(parsed.h, data)
      h2 == set(copy.h, copy.v, Str(path), parsed.v)
  IN [h |-> h2,
      result |-> [original |-> get(h2, data, Str(path)),
                  new |-> parsed.v,
                  path |-> path,
                  data |-> copy.v]]

(***************************************************************************)
(* JSONProcessor.evaluate.  The accessor is a sequence of JavaScript       *)
(* tokens; the expressions of the model are a chain of member accesses,    *)
(* index accesses and calls on `data`, optionally ended by an assignment,  *)
(* with literals and identifiers as arguments.  vm.createContext(context)  *)
(* gives the code a global scope holding `_`, `data` and `result` and the  *)
(* context realm's own intrinsics; the objects of `data` and `_` keep the  *)
(* prototypes of the realm that made them, the host's.                     *)
(***************************************************************************)
P(s) == [k |-> "punct", p |-> s]
Id(name) == [k |-> "id", name |-> name]
NumTok(n) == [k |-> "num", n |-> n]
StrTok(s) == [k |-> "str", s |-> s]

IsP(toks, i, s) == i <= Len(toks) /\ toks[i].k = "punct" /\ toks[i].p = s
IsAtom(toks, i) == i <= Len(toks) /\ toks[i].k \in {"id", "num", "str"}

Host(h) == [t |-> "host", h |-> h]
HostFn(realm, fnBody) == [t |-> "fn", realm |-> realm, body |-> fnBody]
\* the host's process object, which shows the host's environment
Process(env) == [t |-> "process", env |-> env]

NoError == [name |-> "", subject |-> <<>>, text |-> ""]
\* `${subject}${text}` is the message of the error thrown
Thrown(name, subject, text) == [name |-> name, subject |-> subject, text |-> text]

\* if (!accessor.startsWith('.') && !accessor.startsWith('[')) accessor = '.' + accessor
normalize(accessor) ==
  IF IsP(accessor, 1, ".") \/ IsP(accessor, 1, "[") THEN accessor ELSE <<P(".")>> \o accessor

\* an identifier evaluated in the context: its value, or a ReferenceError
Lookup(data, name) ==
  IF name = <<"d","a","t","a">> THEN [ok |-> TRUE, v |-> data]
  ELSE IF name = <<"_">> THEN [ok |-> TRUE, v |-> Host("lodash")]
  ELSE IF name = <<"r","e","s","u","l","t">> THEN [ok |-> TRUE, v |-> Null]
  ELSE IF name = <<"O","b","j","e","c","t">> THEN [ok |-> TRUE, v |-> Host("ctx.Object")]
  ELSE [ok |-> FALSE, v |-> Undef]

EvalAtom(data, tok) ==
  IF tok.k = "num" THEN [ok |-> TRUE, v |-> Num(tok.n)]
  ELSE IF tok.k = "str" THEN [ok |-> TRUE, v |-> Str(tok.s)]
  ELSE Lookup(data, tok.name)

\* ToPropertyKey of a value used between brackets
ToKey(v) ==
  IF v.t = "number" THEN NumToDigits(v.n)
  ELSE IF v.t = "string" THEN v.s
  ELSE <<"[","o","b","j","e","c","t"," ","O","b","j","e","c","t","]">>

\* base[key] with the prototype chain: an own property, or what the base's
\* prototype gives
JSGet(h, base, k) ==
  IF base.t = "ref" THEN
    IF HasOwn(h[base.id], k) THEN GetOwn(h[base.id], k)
    ELSE IF h[base.id].kind = "array" /\ k = <<"l","e","n","g","t","h">> THEN Num(h[base.id].len)
    ELSE IF h[base.id].kind = "array" /\ k = <<"p","u","s","h">> THEN Host("push")
    ELSE IF k = <<"c","o","n","s","t","r","u","c","t","o","r">>
      THEN Host(IF h[base.id].kind = "array" THEN "Array" ELSE "Object")
    ELSE Undef
  ELSE IF base.t = "string" /\ k # <<"c","o","n","s","t","r","u","c","t","o","r">> THEN PropRead(h, base, k)
  ELSE IF base.t \in {"string", "number", "boolean"} THEN
    IF k = <<"c","o","n","s","t","r","u","c","t","o","r">> THEN Host("ctx.Ctor") ELSE Undef
  ELSE IF base.t = "host" THEN
    IF k = <<"c","o","n","s","t","r","u","c","t","o","r">>
      THEN Host(IF base.h \in {"ctx.Ctor", "ctx.Object", "ctx.Function"}
                  THEN "ctx.Function" ELSE "Function")
      ELSE Undef
  ELSE IF base.t = "fn" /\ k = <<"c","o","n","s","t","r","u","c","t","o","r">>
    THEN Host(IF base.realm = "ctx" THEN "ctx.Function" ELSE "Function")
  ELSE Undef

\* the tokens of an argument list that opens at i: atoms between commas
RECURSIVE CollectArgs(_, _, _)
CollectArgs(toks, i, acc) ==
  IF IsP(toks, i, ")") /\ acc = <<>> THEN [ok |-> TRUE, args |-> acc, next |-> i + 1]
  ELSE IF ~IsAtom(toks, i) THEN [ok |-> FALSE, args |-> acc, next |-> i]
  ELSE IF IsP(toks, i + 1, ")") THEN [ok |-> TRUE, args |-> Append(acc, toks[i]), next |-> i + 2]
  ELSE IF IsP(toks, i + 1, ",") THEN CollectArgs(toks, i + 2, Append(acc, toks[i]))
  ELSE [ok |-> FALSE, args |-> acc, next |-> i + 1]

\* the first identifier among the argument tokens that the context does not bind
UnboundIn(data, args) ==
  IF \E i \in 1..Len(args) : ~EvalAtom(data, args[i]).ok
    THEN CHOOSE i \in 1..Len(args) :
           /\ ~EvalAtom(data, args[i]).ok
           /\ \A j \in 1..(i - 1) : EvalAtom(data, args[j]).ok
    ELSE 0

\* Array.prototype.push(...args) on an array node
RECURSIVE PushAll(_, _, _)
PushAll(node, vals, i) ==
  IF i > Len(vals) THEN node
  ELSE PushAll(PutOwn(node, NumToDigits(node.len), vals[i]), vals, i + 1)

\* callee.call(this, ...vals): the heap after, the value returned, the error thrown
Call(h, callee, this, vals, env) ==
  IF callee.t = "host" /\ callee.h = "push" /\ this.t = "ref" /\ h[this.id].kind = "array"
    THEN [h |-> [h EXCEPT ![this.id] = PushAll(h[this.id], vals, 1)],
          v |-> Num(h[this.id].len + Len(vals)), err |-> NoError]
  ELSE IF callee.t = "host" /\ callee.h \in {"Function", "ctx.Function"}
    THEN [h |-> h,
          v |-> HostFn(IF callee.h = "Function" THEN "host" ELSE "ctx",
                       IF Len(vals) > 0 /\ vals[Len(vals)].t = "string"
                         THEN vals[Len(vals)].s ELSE <<>>),
          err |-> NoError]
  ELSE IF callee.t = "fn" THEN
    IF callee.body = <<"r","e","t","u","r","n"," ","p","r","o","c","e","s","s">>
      THEN IF callee.realm = "host"
             THEN [h |-> h, v |-> Process(env), err |-> NoError]
             ELSE [h |-> h, v |-> Undef,
                   err |-> Thrown("ReferenceError", <<"p","r","o","c","e","s","s">>, " is not defined")]
      ELSE [h |-> h, v |-> Undef, err |-> NoError]
  ELSE [h |-> h, v |-> Undef, err |-> Thrown("TypeError", <<>>, "data... is not a function")]

SyntaxError == Thrown("SyntaxError", <<>>, "Unexpected token")

\* The evaluation of the chain from token i.  st = [h, cur, base, key, err]:
\* the heap, the value so far, the object and key it was read from.
RECURSIVE EvalChain(_, _, _, _, _)
EvalChain(st, toks, i, data, env) ==
  IF st.err # NoError \/ i > Len(toks) THEN st
  ELSE IF IsP(toks, i, ".") THEN
    IF ~(i + 1 <= Len(toks) /\ toks[i + 1].k = "id") THEN [st EXCEPT !.err = SyntaxError]
    ELSE IF IsNullish(st.cur)
      THEN [st EXCEPT !.err = Thrown("TypeError", toks[i + 1].name,
                                     "Cannot read properties of undefined or null")]
    ELSE EvalChain([st EXCEPT !.base = st.cur, !.key = toks[i + 1].name,
                               !.cur = JSGet(st.h, st.cur, toks[i + 1].name)],
                   toks, i + 2, data, env)
  ELSE IF IsP(toks, i, "[") THEN
    IF ~(IsAtom(toks, i + 1) /\ IsP(toks, i + 2, "]")) THEN [st EXCEPT !.err = SyntaxError]
    ELSE IF ~EvalAtom(data, toks[i + 1]).ok
      THEN [st EXCEPT !.err = Thrown("ReferenceError", toks[i + 1].name, " is not defined")]
    ELSE IF IsNullish(st.cur)
      THEN [st EXCEPT !.err = Thrown("TypeError", ToKey(EvalAtom(data, toks[i + 1]).v),
                                     "Cannot read properties of undefined or null")]
    ELSE EvalChain([st EXCEPT !.base = st.cur,
                               !.key = ToKey(EvalAtom(data, toks[i + 1]).v),
                               !.cur = JSGet(st.h, st.cur, ToKey(EvalAtom(data, toks[i + 1]).v))],
                   toks, i + 3, data, env)
  ELSE IF IsP(toks, i, "(") THEN
    LET a == CollectArgs(toks, i + 1, <<>>) IN
    IF ~a.ok THEN [st EXCEPT !.err = SyntaxError]
    ELSE IF UnboundIn(data, a.args) > 0
      THEN [st EXCEPT !.err = Thrown("ReferenceError",
                                     a.args[UnboundIn(data, a.args)].name, " is not defined")]
    ELSE LET vals == [j \in 1..Len(a.args) |-> EvalAtom(data, a.args[j]).v]
             c == Call(st.h, st.cur, st.base, vals, env)
         IN EvalChain([h |-> c.h, cur |-> c.v, base |-> Undef, key |-> <<>>, err |-> c.err],
                      toks, a.next, data, env)
  ELSE IF IsP(toks, i, "=") THEN
    \* an assignment to the property just named; it ends the expression
    IF ~(IsAtom(toks, i + 1) /\ i + 1 = Len(toks) /\ st.base # Undef)
      THEN [st EXCEPT !.err = SyntaxError]
    ELSE IF ~EvalAtom(data, toks[i + 1]).ok
      THEN [st EXCEPT !.err = Thrown("ReferenceError", toks[i + 1].name, " is not defined")]
    ELSE [st EXCEPT
            !.h = IF st.base.t = "ref"
                    THEN [st.h EXCEPT ![st.base.id] =
                            PutOwn(st.h[st.base.id], st.key, EvalAtom(data, toks[i + 1]).v)]
                    ELSE st.h,
            !.cur = EvalAtom(data, toks[i + 1]).v]
  ELSE [st EXCEPT !.err = SyntaxError]

\* vm.runInContext(`result = data${accessor}`, context), then context.result
runInContext(h, data, accessor, env) ==
  EvalChain([h |-> h, cur |-> data, base |-> Undef, key |-> <<>>, err |-> NoError],
            accessor, 1, data, env)

\* JSONProcessor.evaluate(accessor): the heap after, and the value returned
\* or the Error thrown, `Failed to evaluate accessor: ${error.message}`
evaluate(h, data, accessor, env) ==
  LET st == runInContext(h, data, normalize(accessor), env) IN
  [h |-> st.h,
   result |-> IF st.err = NoError
                THEN [ok |-> TRUE, value |-> st.cur, message |-> <<>>]
                ELSE [ok |-> FALSE, value |-> Undef,
                      message |-> <<"Failed to evaluate accessor: ", st.err.subject, st.err.text>>]]

(***************************************************************************)
(* The inputs explored.                                                    *)
(***************************************************************************)
\* the JSON documents a processor is constructed over
Docs == <<
  \* {"a": {"b": "Ab"}, "list": ["x", 1]}
  JObj(<<KV(<<"a">>, JObj(<<KV(<<"b">>, Str(<<"A","b">>))>>)), KV(<<"l","i","s","t">>, JArr(<<Str(<<"x">>), Num(1)>>))>>),
  \* [{"a": "x"}, {"a": "y"}]
  JArr(<<JObj(<<KV(<<"a">>, Str(<<"x">>))>>), JObj(<<KV(<<"a">>, Str(<<"y">>))>>)>>),
  \* 5
  Num(5),
  \* null
  Null,
  \* {"x": {"a.b": "v"}, "": {"a": 1}}
  JObj(<<KV(<<"x">>, JObj(<<KV(<<"a",".","b">>, Str(<<"v">>))>>)), KV(<<>>, JObj(<<KV(<<"a">>, Num(1))>>))>>),
  \* {"length": 1, "name": "n"}
  JObj(<<KV(<<"l","e","n","g","t","h">>, Num(1)), KV(<<"n","a","m","e">>, Str(<<"n">>))>>),
  \* {"n": null, "t": true, "o": {"length": 1, "k": "v"}}
  JObj(<<KV(<<"n">>, Null), KV(<<"t">>, Bool(TRUE)),
         KV(<<"o">>, JObj(<<KV(<<"l","e","n","g","t","h">>, Num(1)), KV(<<"k">>, Str(<<"v">>))>>))>>),
  \* {"users": [{"name": "Ann", "active": true}, {"name": "Bo", "active": false}]}
  JObj(<<KV(<<"u","s","e","r","s">>, JArr(<<
      JObj(<<KV(<<"n","a","m","e">>, Str(<<"A","n","n">>)), KV(<<"a","c","t","i","v","e">>, Bool(TRUE))>>),
      JObj(<<KV(<<"n","a","m","e">>, Str(<<"B","o">>)), KV(<<"a","c","t","i","v","e">>, Bool(FALSE))>>)>>))>>),
  \* "hello"
  Str(<<"h","e","l","l","o">>),
  \* {"n": null, "s": "Ns"}
  JObj(<<KV(<<"n">>, Null), KV(<<"s">>, Str(<<"N","s">>))>>)
>>

\* the path texts given to replace
Paths == <<<<"a">>, <<"a",".","b">>, <<"a",".","c",".","d">>, <<"l","i","s","t","[","0","]">>, <<"l","i","s","t","[","3","]">>, <<"b","[","0","]">>, <<"0",".","a">>, <<"u","s","e","r","s","[","1","]",".","n","a","m","e">>, <<"x",".","a",".","b">>>>

\* the raw value texts given to replace
RawValues == <<<<"4","2">>, <<"t","r","u","e">>, <<"n","u","l","l">>, <<"h","e","l","l","o">>, <<"\"","x","\"">>, <<"0","1">>, <<"[","]">>, <<"{","\"","a","\"",":","1","}">>>>

\* the queries given to search
Queries == <<<<>>, <<"a">>, <<"A">>, <<"B">>, <<"n","a","m","e">>, <<"l","e","n">>, <<"0">>, <<"z","z">>>>

\* the accessor expressions given to evaluate
Accessors == <<
  \* a
  <<Id(<<"a">>)>>,
  \* .a.b
  <<P("."), Id(<<"a">>), P("."), Id(<<"b">>)>>,
  \* list[0]
  <<Id(<<"l","i","s","t">>), P("["), NumTok(0), P("]")>>,
  \* [0].a
  <<P("["), NumTok(0), P("]"), P("."), Id(<<"a">>)>>,
  \* missing.x
  <<Id(<<"m","i","s","s","i","n","g">>), P("."), Id(<<"x">>)>>,
  \* a = 5
  <<Id(<<"a">>), P("="), NumTok(5)>>,
  \* list.push(7)
  <<Id(<<"l","i","s","t">>), P("."), Id(<<"p","u","s","h">>), P("("), NumTok(7), P(")")>>,
  \* list.push(7).x.y
  <<Id(<<"l","i","s","t">>), P("."), Id(<<"p","u","s","h">>), P("("), NumTok(7), P(")"),
    P("."), Id(<<"x">>), P("."), Id(<<"y">>)>>,
  \* _.filter(users, {active: true})      (the object literal is one argument)
  <<Id(<<"_">>), P("."), Id(<<"f","i","l","t","e","r">>), P("("), Id(<<"u","s","e","r","s">>), P(","), StrTok(<<"{","a","c","t","i","v","e",":"," ","t","r","u","e","}">>), P(")")>>,
  \* Object.keys(data)
  <<Id(<<"O","b","j","e","c","t">>), P("."), Id(<<"k","e","y","s">>), P("("), Id(<<"d","a","t","a">>), P(")")>>,
  \* [process]
  <<P("["), Id(<<"p","r","o","c","e","s","s">>), P("]")>>,
  \* constructor.constructor('return process')()
  <<Id(<<"c","o","n","s","t","r","u","c","t","o","r">>), P("."), Id(<<"c","o","n","s","t","r","u","c","t","o","r">>), P("("), StrTok(<<"r","e","t","u","r","n"," ","p","r","o","c","e","s","s">>), P(")"),
    P("("), P(")")>>
>>

\* what the host's environment may hold
HostEnvs == {"envA", "envB"}

(***************************************************************************)
(* The processor as a state machine.                                       *)
(***************************************************************************)
VARIABLES
  heap,     \* the objects and arrays of the process
  data,     \* this.data, the processor's document
  op,       \* the last operation called
  arg,      \* its arguments
  result,   \* what it returned or threw
  evals,    \* evaluate calls made so far
  hostEnv   \* the host process's environment

vars == <<heap, data, op, arg, result, evals, hostEnv>>

\* The caller keeps no earlier result: only the document is live once a
\* result has been handed over.
Live == Restrict(heap, Reach(heap, data))

Idle == [none |-> TRUE]

\* new JSONProcessor(JSON.parse(jsonContent))
Init ==
  \E i \in 1..Len(Docs) :
    /\ heap = Load(EmptyHeap, Docs[i]).h
    /\ data = Load(EmptyHeap, Docs[i]).v
    /\ op = "idle"
    /\ arg = Idle
    /\ result = Idle
    /\ evals = 0
    /\ hostEnv \in HostEnvs

Search(q) ==
  /\ op = "idle"
  /\ op' = "search"
  /\ arg' = [query |-> q]
  /\ result' = search(heap, data, q)
  /\ UNCHANGED <<heap, data, evals, hostEnv>>

Replace(path, newValue) ==
  LET r == replace(heap, data, path, newValue) IN
  /\ op = "idle"
  /\ op' = "replace"
  /\ arg' = [path |-> path, newValue |-> newValue]
  /\ result' = r.result
  /\ heap' = r.h
  /\ UNCHANGED <<data, evals, hostEnv>>

ListAllNodes ==
  /\ op = "idle"
  /\ op' = "list"
  /\ arg' = Idle
  /\ result' = listAllNodes(heap, data)
  /\ UNCHANGED <<heap, data, evals, hostEnv>>

Evaluate(accessor) ==
  LET r == evaluate(heap, data, accessor, hostEnv) IN
  /\ op = "idle"
  /\ evals < MaxEvals
  /\ op' = "evaluate"
  /\ arg' = [accessor |-> accessor]
  /\ result' = r.result
  /\ heap' = r.h
  /\ evals' = evals + 1
  /\ UNCHANGED <<data, hostEnv>>

\* The caller takes the result (outputResults prints it) and drops it.
OutputResults ==
  /\ op # "idle"
  /\ op' = "idle"
  /\ arg' = Idle
  /\ result' = Idle
  /\ heap' = Live
  /\ UNCHANGED <<data, evals, hostEnv>>

Next ==
  \/ \E i \in 1..Len(Queries) : Search(Queries[i])
  \/ \E i \in 1..Len(Paths) : \E j \in 1..Len(RawValues) : Replace(Paths[i], RawValues[j])
  \/ ListAllNodes
  \/ \E i \in 1..Len(Accessors) : Evaluate(Accessors[i])
  \/ OutputResults

Spec == Init /\ [][Next]_vars

(***************************************************************************)
(* What the specification says of a document, stated on the document as    *)
(* written (not on the heap): its entries, their type tags and summaries.  *)
(***************************************************************************)
RECURSIVE DocEntries(_)
RECURSIVE DocEntriesFrom(_, _)
\* every object key and array index of a document with its value, each parent
\* before its children, in document order
DocEntries(d) == IF d.t \in {"object", "array"} THEN DocEntriesFrom(d, 1) ELSE <<>>
DocEntriesFrom(d, i) ==
  IF d.t = "object" THEN
    IF i > Len(d.ents) THEN <<>>
    ELSE <<[key |-> Str(d.ents[i].k), value |-> d.ents[i].v]>>
         \o DocEntries(d.ents[i].v) \o DocEntriesFrom(d, i + 1)
  ELSE
    IF i > Len(d.items) THEN <<>>
    ELSE <<[key |-> Num(i - 1), value |-> d.items[i]] >>
         \o DocEntries(d.items[i]) \o DocEntriesFrom(d, i + 1)

\* the type tag the specification gives a value
DocTag(d) == d.t

\* the direct child count of an object or array
DocChildCount(d) == IF d.t = "object" THEN Len(d.ents) ELSE Len(d.items)

\* "Object[n]" / "Array[n]" for a composite value, the value itself for a scalar
DocSummary(d) ==
  IF d.t = "object" THEN Str(<<"O","b","j","e","c","t","[">> \o NumToDigits(DocChildCount(d)) \o <<"]">>)
  ELSE IF d.t = "array" THEN Str(<<"A","r","r","a","y","[">> \o NumToDigits(DocChildCount(d)) \o <<"]">>)
  ELSE d

\* the matches the specification asks of search(q), without their paths
DocMatch(e, q, i) ==
  (IF includes(toLowerCase(ToText(e.key)), toLowerCase(q))
     THEN <<[key |-> e.key, value |-> e.value, matchType |-> "key"]>> ELSE <<>>)
  \o
  (IF e.value.t = "string" /\ includes(toLowerCase(e.value.s), toLowerCase(q))
     THEN <<[key |-> e.key, value |-> e.value, matchType |-> "value"]>> ELSE <<>>)
RECURSIVE DocMatchesFrom(_, _, _)
DocMatchesFrom(entries, q, i) ==
  IF i > Len(entries) THEN <<>>
  ELSE DocMatch(entries[i], q, i) \o DocMatchesFrom(entries, q, i + 1)

\* the document the processor holds
Document == Mat(heap, data)

(***************************************************************************)
(* The claims.                                                             *)
(***************************************************************************)

\* C1: replace(p, v) leaves the processor's document as it was: every node of
\* it is unchanged, get(root, p) gives what it gave before, and the data
\* returned shares no object or array with the document.
C1_ReplaceLeavesDocument ==
  [][op' = "replace" =>
       /\ data' = data
       /\ Mat(heap', data') = Mat(heap, data)
       /\ \A id \in Reach(heap, data) : heap'[id] = heap[id]
       /\ get(heap', data', Str(arg'.path)) = get(heap, data, Str(arg'.path))
       /\ Reach(heap', result'.data) \cap Reach(heap', data') = {}]_vars

\* C1's case: a replace on an object or array document whose returned data
\* differs from the document.
C1_Witness ==
  /\ op = "replace"
  /\ data.t = "ref"
  /\ Mat(heap, result.data) # Mat(heap, data)

\* C2: after replace(p, v) on any document, get(result.data, p) is result.new
\* and result.original is get(root, p).
C2_ReplaceSetsPath ==
  op = "replace" =>
    /\ get(heap, result.data, Str(arg.path)) = result.new
    /\ result.original = get(heap, data, Str(arg.path))

\* what JSON.parse gives for each raw value text, and the text itself where
\* it is not JSON
ExpectedNew(raw) ==
  CASE raw = <<"4","2">> -> Num(42)
    [] raw = <<"t","r","u","e">> -> Bool(TRUE)
    [] raw = <<"n","u","l","l">> -> Null
    [] raw = <<"h","e","l","l","o">> -> Str(<<"h","e","l","l","o">>)
    [] raw = <<"\"","x","\"">> -> Str(<<"x">>)
    [] raw = <<"0","1">> -> Str(<<"0","1">>)
    [] raw = <<"[","]">> -> JArr(<<>>)
    [] raw = <<"{","\"","a","\"",":","1","}">> -> JObj(<<KV(<<"a">>, Num(1))>>)

\* C3: result.new is the JSON value of the raw text when the text is JSON,
\* and the text itself as a string when it is not.
C3_ValueCoercion ==
  op = "replace" => Mat(heap, result.new) = ExpectedNew(arg.newValue)

\* C3's case: a raw text that is not JSON was kept as a string, and one that
\* is JSON was parsed (two replaces are never in one state, so either).
C3_Witness ==
  /\ op = "replace"
  /\ \/ arg.newValue = <<"h","e","l","l","o">> /\ result.new = Str(<<"h","e","l","l","o">>)
     \/ arg.newValue = <<"0","1">> /\ result.new = Str(<<"0","1">>)

\* C4: every match of search(q) has a path that get resolves, from the
\* document, to the value the match records.
C4_SearchPathsResolve ==
  op = "search" =>
    \A i \in 1..Len(result) : get(heap, data, result[i].path) = result[i].value

\* C5: search(q) returns exactly one key record per entry whose key contains
\* q and one value record per entry whose string value contains q, case
\* insensitively, the key record first.
C5_SearchExactMatches ==
  op = "search" =>
    [i \in 1..Len(result) |->
       [key |-> result[i].key, value |-> Mat(heap, result[i].value),
        matchType |-> result[i].matchType]]
    = DocMatchesFrom(DocEntries(Document), arg.query, 1)

\* C6: listAllNodes returns one record per entry of the document, nested ones
\* counted, each parent before its children, in document order.
C6_ListOnePerEntry ==
  op = "list" =>
    /\ Len(result) = Len(DocEntries(Document))
    /\ \A i \in 1..Len(result) :
         i <= Len(DocEntries(Document)) =>
           result[i].value = DocSummary(DocEntries(Document)[i].value)

\* C7: every record of listAllNodes carries the type tag of its node's value
\* (null for a JSON null) and the node's summary or literal value.
C7_ListTypeTags ==
  op = "list" =>
    \A i \in 1..Len(result) :
      \E j \in 1..Len(DocEntries(Document)) :
        /\ result[i].type = DocTag(DocEntries(Document)[j].value)
        /\ result[i].value = DocSummary(DocEntries(Document)[j].value)

\* C8: evaluate leaves the processor's document as it was, whether it returns
\* or throws.
C8_EvaluateReadOnly ==
  [][op' = "evaluate" => Mat(heap', data') = Mat(heap, data)]_vars

\* the documented examples _.filter(users, {active: true}) and Object.keys(data)
FilterExample == Accessors[9]
ObjectKeysExample == Accessors[10]

\* C9: the documented utility examples evaluate to a value, not to a failure.
C9_UtilityNamespace ==
  (op = "evaluate" /\ arg.accessor \in {FilterExample, ObjectKeysExample}) => result.ok

\* C10: the outcome of evaluate is the same whatever the host's environment
\* holds, and an identifier the context does not bind is an evaluation error
\* naming it.
C10_ContextIsolation ==
  [][op' = "evaluate" =>
       /\ \A e \in HostEnvs : result' = evaluate(heap, data, arg'.accessor, e).result
       /\ arg'.accessor = <<P("["), Id(<<"p","r","o","c","e","s","s">>), P("]")>> =>
            result' = [ok |-> FALSE, value |-> Undef,
                       message |-> <<"Failed to evaluate accessor: ", <<"p","r","o","c","e","s","s">>, " is not defined">>]
     ]_vars

====
